---- MODULE Spec2Model ----
(***************************************************************************)
(* Model of the job collection pipeline: the search loop of                *)
(* JobCollector.collect_and_export, the consolidation and deduplication    *)
(* of _consolidate_and_export, JobDataCleaner.clean and                    *)
(* JobDataExporter.export.                                                 *)
(*                                                                         *)
(* A pandas DataFrame is a record [none, cols, rows]: `none` is TRUE for   *)
(* Python's None, cols is the set of column names and rows the sequence    *)
(* of rows, each a function from cols to values.  A value is a record      *)
(* [k, s, n, nan]: k is the Python type ("none", "float", "str"), s the    *)
(* characters of a str, n the number of a float and nan whether the float  *)
(* is not-a-number.  Strings are sequences of characters so that strip()   *)
(* and lower() are computed, not assumed.                                  *)
(***************************************************************************)
EXTENDS Integers, Sequences, FiniteSets, TLC

(* ---------------------------- bounds ----------------------------------- *)

MaxTerms == 2
MaxLocs == 2
MaxSearches == 4
MaxRows == 2

(* ---------------------------- values ----------------------------------- *)

NONE == [k |-> "none", s |-> <<>>, n |-> 0, nan |-> FALSE]
NAN == [k |-> "float", s |-> <<>>, n |-> 0, nan |-> TRUE]
F(x) == [k |-> "float", s |-> <<>>, n |-> x, nan |-> FALSE]
S(chars) == [k |-> "str", s |-> chars, n |-> 0, nan |-> FALSE]

Whitespace == {" "}

LowerChar(c) == CASE c = "N" -> "n" [] c = "A" -> "a" [] OTHER -> c

Lower(s) == [i \in 1..Len(s) |-> LowerChar(s[i])]

RECURSIVE LStrip(_)
LStrip(s) == IF s # <<>> /\ Head(s) \in Whitespace THEN LStrip(Tail(s)) ELSE s

RECURSIVE RStrip(_)
RStrip(s) ==
    IF s # <<>> /\ s[Len(s)] \in Whitespace THEN RStrip(SubSeq(s, 1, Len(s) - 1)) ELSE s

Strip(s) == RStrip(LStrip(s))

\* pd.notna / Series.notna: None and float NaN are missing values
NotNa(v) == ~(v.k = "none" \/ (v.k = "float" /\ v.nan))

(* ---------------------------- frames ----------------------------------- *)

NoFrame == [none |-> TRUE, cols |-> {}, rows |-> <<>>]
Frame(cols, rows) == [none |-> FALSE, cols |-> cols, rows |-> rows]

\* DataFrame.empty: no rows or no columns
Empty(df) == df.rows = <<>> \/ df.cols = {}

\* jobs[col] = value: sets the column on every row, adding it if missing
SetColumn(df, col, value) ==
    Frame(df.cols \cup {col},
          [i \in 1..Len(df.rows) |->
              [c \in df.cols \cup {col} |-> IF c = col THEN value ELSE df.rows[i][c]]])

\* jobs[available_columns]: projection on the columns in `cols`
Project(df, cols) ==
    Frame(cols, [i \in 1..Len(df.rows) |-> [c \in cols |-> df.rows[i][c]]])

\* the rows of `rows` at the positions in `keep`, in order, from position i on
RECURSIVE Pick(_, _, _)
Pick(rows, keep, i) ==
    IF i > Len(rows) THEN <<>>
    ELSE (IF i \in keep THEN <<rows[i]>> ELSE <<>>) \o Pick(rows, keep, i + 1)

\* pd.concat(frames, ignore_index=True): union of the columns, rows in list
\* order, a column missing from a frame filled with NaN
Reindex(df, cols) ==
    [i \in 1..Len(df.rows) |-> [c \in cols |-> IF c \in df.cols THEN df.rows[i][c] ELSE NAN]]

RECURSIVE ConcatRows(_, _)
ConcatRows(frames, cols) ==
    IF frames = <<>> THEN <<>>
    ELSE Reindex(Head(frames), cols) \o ConcatRows(Tail(frames), cols)

Concat(frames) ==
    LET cols == UNION {frames[i].cols : i \in 1..Len(frames)}
    IN Frame(cols, ConcatRows(frames, cols))

\* two cells are the same for duplicate detection: equal, or both missing
SameCell(a, b) == a = b \/ (~NotNa(a) /\ ~NotNa(b))

\* drop_duplicates(subset=["id"], keep="first"): a row is dropped when an
\* earlier row has the same id; every NaN id equals every other NaN id
SameId(a, b) == SameCell(a["id"], b["id"])

\* drop_duplicates(subset=["id"], keep="last")
DropDuplicatesByIdKeepLast(df) ==
    LET keep == {i \in 1..Len(df.rows) :
                    ~\E j \in (i + 1)..Len(df.rows) : SameId(df.rows[j], df.rows[i])}
    IN Frame(df.cols, Pick(df.rows, keep, 1))

DropDuplicatesById(df) ==
    LET keep == {i \in 1..Len(df.rows) :
                    ~\E j \in 1..(i - 1) : SameId(df.rows[j], df.rows[i])}
    IN Frame(df.cols, Pick(df.rows, keep, 1))

\* drop_duplicates(): a row is dropped when an earlier row is the same in
\* every column
SameRow(a, b, cols) == \A c \in cols : SameCell(a[c], b[c])

\* drop_duplicates on the columns of the provider only, the tags left out
DropDuplicatesUntagged(df) ==
    LET sub == df.cols \ {"search_term", "search_location", "search_country"}
        keep == {i \in 1..Len(df.rows) :
                    ~\E j \in 1..(i - 1) : SameRow(df.rows[j], df.rows[i], sub)}
    IN Frame(df.cols, Pick(df.rows, keep, 1))

DropDuplicatesAll(df) ==
    LET keep == {i \in 1..Len(df.rows) :
                    ~\E j \in 1..(i - 1) : SameRow(df.rows[j], df.rows[i], df.cols)}
    IN Frame(df.cols, Pick(df.rows, keep, 1))

\* the deduplication of _consolidate_and_export
Deduplicate(consolidated) ==
    IF "id" \in consolidated.cols
    THEN DropDuplicatesById(consolidated)
    ELSE DropDuplicatesAll(consolidated)

(* ---------------------------- cleaner ---------------------------------- *)

ESSENTIAL_COLUMNS ==
    {"id", "site", "job_url", "job_url_direct", "title", "company", "location",
     "date_posted", "job_type", "salary_source", "interval", "min_amount",
     "max_amount", "currency", "is_remote", "job_level", "job_function",
     "description", "skills", "search_term", "search_location", "search_country"}

\* str(value) of a float: "nan" for not-a-number, a numeral otherwise
StrOfFloat(v) == IF v.nan THEN <<"n", "a", "n">> ELSE <<"0">>

\* value != value holds of a not-a-number float only
_is_nan(v) == v.nan \/ Lower(StrOfFloat(v)) = <<"n", "a", "n">>

_is_invalid_string(s) == Strip(s) = <<>> \/ Lower(s) = <<"n", "a", "n">>

_clean_value(v) ==
    IF v.k = "none" THEN v
    ELSE IF v.k = "float" /\ _is_nan(v) THEN NONE
    ELSE IF v.k = "str" /\ _is_invalid_string(v.s) THEN NONE
    ELSE v

_clean_record(record) == [c \in DOMAIN record |-> _clean_value(record[c])]

\* the gate without the comparison with the empty string
HasDescriptionNotNa(row) == NotNa(row["description"])

\* jobs[jobs['description'].notna() & (jobs['description'] != '')]
HasDescription(row) == NotNa(row["description"]) /\ row["description"] # S(<<>>)

DescriptionGate(jobs) ==
    IF "description" \in jobs.cols
    THEN Frame(jobs.cols, SelectSeq(jobs.rows, HasDescription))
    ELSE jobs

_filter_columns(jobs) == Project(jobs, ESSENTIAL_COLUMNS \cap jobs.cols)

\* jobs.where(pd.notna(jobs), None): a missing value becomes None
WhereNotNa(row) == [c \in DOMAIN row |-> IF NotNa(row[c]) THEN row[c] ELSE NONE]

\* pd.DataFrame(records): a column whose values are all floats or None, with
\* at least one float, becomes a float64 column and its None become NaN; any
\* other column is an object column and keeps its values
IsFloatColumn(records, c) ==
    /\ \A i \in 1..Len(records) : records[i][c].k \in {"float", "none"}
    /\ \E i \in 1..Len(records) : records[i][c].k = "float"

FromRecords(records) ==
    IF records = <<>> THEN Frame({}, <<>>)
    ELSE LET cols == DOMAIN records[1]
         IN Frame(cols,
                  [i \in 1..Len(records) |->
                      [c \in cols |->
                          IF IsFloatColumn(records, c) /\ records[i][c].k = "none"
                          THEN NAN ELSE records[i][c]]])

_remove_invalid_values(jobs) ==
    FromRecords([i \in 1..Len(jobs.rows) |-> _clean_record(WhereNotNa(jobs.rows[i]))])

\* clean that returns the frame it ended with, even when it has no rows
cleanKeepsEmpty(jobs) ==
    IF jobs.none \/ Empty(jobs) THEN NoFrame
    ELSE _remove_invalid_values(_filter_columns(DescriptionGate(jobs)))

clean(jobs) ==
    IF jobs.none \/ Empty(jobs) THEN NoFrame
    ELSE LET cleaned == _remove_invalid_values(_filter_columns(DescriptionGate(jobs)))
         IN IF Empty(cleaned) THEN NoFrame ELSE cleaned

(* ---------------------------- exporter --------------------------------- *)

\* a date (pd.Timestamp, datetime, date) with the characters of its ISO text,
\* and a value of a type that json does not know
D(chars) == [k |-> "date", s |-> chars, n |-> 0, nan |-> FALSE]
OBJECT == [k |-> "object", s |-> <<>>, n |-> 0, nan |-> FALSE]

\* jobs.to_dict(orient='records')
ToRecords(jobs) == jobs.rows

\* the sweep that compares the string with "nan" without lowering it
_clean_for_json_value_exact(v) ==
    IF v.k = "none" THEN v
    ELSE IF v.k = "float" /\ (v.nan \/ Lower(StrOfFloat(v)) = <<"n", "a", "n">>) THEN NONE
    ELSE IF v.k = "str" /\ v.s = <<"n", "a", "n">> THEN NONE
    ELSE v

\* the body of the loops of _clean_for_json, on one value
_clean_for_json_value(v) ==
    IF v.k = "none" THEN v
    ELSE IF v.k = "float" /\ (v.nan \/ Lower(StrOfFloat(v)) = <<"n", "a", "n">>) THEN NONE
    ELSE IF v.k = "str" /\ Lower(v.s) = <<"n", "a", "n">> THEN NONE
    ELSE v

_clean_for_json(records) ==
    [i \in 1..Len(records) |->
        [c \in DOMAIN records[i] |-> _clean_for_json_value(records[i][c])]]

\* a serializer that turns whatever it does not know into text
_json_serializer_coerce(obj) ==
    IF obj.k = "date" THEN [err |-> "none", out |-> S(obj.s)]
    ELSE IF obj.k = "none" THEN [err |-> "none", out |-> NONE]
    ELSE IF obj.k = "float" /\ (obj.nan \/ Lower(StrOfFloat(obj)) = <<"n", "a", "n">>)
    THEN [err |-> "none", out |-> NONE]
    ELSE [err |-> "none", out |-> S(<<"?">>)]

\* _json_serializer: the replacement value, or the TypeError it raises
_json_serializer(obj) ==
    IF obj.k = "date" THEN [err |-> "none", out |-> S(obj.s)]
    ELSE IF obj.k = "none" THEN [err |-> "none", out |-> NONE]
    ELSE IF obj.k = "float" /\ (obj.nan \/ Lower(StrOfFloat(obj)) = <<"n", "a", "n">>)
    THEN [err |-> "none", out |-> NONE]
    ELSE IF ~NotNa(obj) THEN [err |-> "none", out |-> NONE]
    ELSE [err |-> "type", out |-> obj]

\* json.dump(..., default=_json_serializer, allow_nan=False) on one value:
\* "none" when it is written, "value" for a non-finite float, "type" when
\* the serializer rejects it
EncodeError(v) ==
    IF v.k \in {"none", "str"} THEN "none"
    ELSE IF v.k = "float" THEN (IF v.nan THEN "value" ELSE "none")
    ELSE _json_serializer(v).err

\* the first error json.dump meets in the records, "none" if there is none
DumpError(records) ==
    LET errs == {EncodeError(records[i][c]) : i \in 1..Len(records), c \in UNION {DOMAIN records[j] : j \in 1..Len(records)}}
    IN IF "value" \in errs THEN "value" ELSE IF "type" \in errs THEN "type" ELSE "none"

\* what the file system does to the two writes of one export: nothing, or
\* an error when a file is opened or while it is written
IOOutcomes == {"ok", "csv_open_error", "csv_write_error", "json_open_error", "json_write_error"}

ExportResult(ok, written, created, swept, caught) ==
    [ok |-> ok, written |-> written, created |-> created, swept |-> swept,
     caught |-> caught, raises |-> FALSE]

\* the try block of export: _export_csv, then _export_json; what is caught
\* by `except Exception` makes export return False
ExportFiles(jobs, io) ==
    IF io = "csv_open_error" THEN ExportResult(FALSE, {}, {}, <<>>, "io")
    ELSE IF io = "csv_write_error" THEN ExportResult(FALSE, {}, {"csv"}, <<>>, "io")
    ELSE LET jobs_dict == _clean_for_json(ToRecords(jobs))
         IN IF io = "json_open_error"
            THEN ExportResult(FALSE, {"csv"}, {"csv"}, jobs_dict, "io")
            ELSE IF io = "json_write_error"
            THEN ExportResult(FALSE, {"csv"}, {"csv", "json"}, jobs_dict, "io")
            ELSE IF DumpError(jobs_dict) # "none"
            THEN ExportResult(FALSE, {"csv"}, {"csv", "json"}, jobs_dict, DumpError(jobs_dict))
            ELSE ExportResult(TRUE, {"csv", "json"}, {"csv", "json"}, jobs_dict, "none")

\* export without its guard on an absent or empty set
exportUnguarded(jobs, io) == ExportFiles(jobs, io)

\* export that reports success as soon as the tabular file is written
exportCsvIsEnough(jobs, io) ==
    IF jobs.none \/ Empty(jobs) THEN ExportResult(FALSE, {}, {}, <<>>, "none")
    ELSE [ExportFiles(jobs, io) EXCEPT !.ok = "csv" \in ExportFiles(jobs, io).written]

\* export that removes the tabular file when the document cannot be written
exportRemovesCsv(jobs, io) ==
    IF jobs.none \/ Empty(jobs) THEN ExportResult(FALSE, {}, {}, <<>>, "none")
    ELSE IF ExportFiles(jobs, io).ok THEN ExportFiles(jobs, io)
    ELSE [ExportFiles(jobs, io) EXCEPT !.written = {}, !.created = {}]

\* export: the result, the files completely written, the files created,
\* the records after the sweep and the error caught
export(jobs, io) ==
    IF jobs.none \/ Empty(jobs) THEN ExportResult(FALSE, {}, {}, <<>>, "none")
    ELSE ExportFiles(jobs, io)

(* ---------------------------- scraper ---------------------------------- *)

\* what scrape_jobs does on one call: it raises, returns None or returns a
\* frame (possibly without rows)
Raises == [kind |-> "raise", jobs |-> NoFrame]
Returns(df) == [kind |-> "return", jobs |-> df]

\* what the provider did on one call: it failed ("error"), returned None or
\* a frame without rows ("nodata"), or returned at least one record ("ok")
OutcomeKind(out) ==
    IF out.kind = "raise" THEN "error"
    ELSE IF out.jobs.none \/ out.jobs.rows = <<>> THEN "nodata"
    ELSE "ok"

\* JobScraper.search without its try/except: the exception leaves it
ScraperSearchUncaught(out) ==
    IF out.kind = "raise" THEN [raised |-> TRUE, jobs |-> NoFrame]
    ELSE [raised |-> FALSE,
          jobs |-> IF ~out.jobs.none /\ Len(out.jobs.rows) > 0 THEN out.jobs ELSE NoFrame]

\* JobScraper.search: the value returned, and whether an exception leaves it
ScraperSearch(out) ==
    IF out.kind = "raise" THEN [raised |-> FALSE, jobs |-> NoFrame]
    ELSE [raised |-> FALSE,
          jobs |-> IF ~out.jobs.none /\ Len(out.jobs.rows) > 0 THEN out.jobs ELSE NoFrame]

(* ---------------------------- inputs ----------------------------------- *)

TermSet == {<<"q", "a">>, <<"d", "e", "v">>}

Recife == [location |-> <<"R", "e", "c">>, country |-> <<"B", "R">>]
Lisbon == [location |-> <<"L", "i", "s">>, country |-> <<"P", "T">>]

LocSet == {Recife, Lisbon}

Delays == {2, 10}

SeqsUpTo(set, n) == UNION {[1..m -> set] : m \in 0..n}

\* the frames the provider returns in the run: a complete posting, and a
\* posting without description that carries the provider's own search_term
PostingA ==
    Frame({"id", "description"},
          <<[c \in {"id", "description"} |->
                IF c = "id" THEN S(<<"a">>) ELSE S(<<"x">>)]>>)

PostingB ==
    Frame({"id", "description", "search_term"},
          <<[c \in {"id", "description", "search_term"} |->
                CASE c = "id" -> S(<<"b">>)
                  [] c = "description" -> S(<<>>)
                  [] OTHER -> S(<<"z">>)]>>)

RunOutcomes ==
    {Raises, Returns(NoFrame), Returns(Frame({}, <<>>)), Returns(PostingA), Returns(PostingB)}

(* ------------------------- configuration ------------------------------ *)

\* the JSON values of the search section: null, a string, a list of
\* entries, or an object; an entry of a list is a string or an object with
\* some of the keys 'location' and 'country'
Str(chars) == [t |-> "str", text |-> chars, keys |-> {}, location |-> <<>>, country |-> <<>>]
LocEntry(keys, loc, ctry) ==
    [t |-> "dict", text |-> <<>>, keys |-> keys, location |-> loc, country |-> ctry]

JNull == [t |-> "null", text |-> <<>>, items |-> <<>>]
JStr(chars) == [t |-> "str", text |-> chars, items |-> <<>>]
JList(items) == [t |-> "list", text |-> <<>>, items |-> items]
JDict == [t |-> "dict", text |-> <<>>, items |-> <<>>]

\* a Python dict of the search section: the keys present and their values
NoKeys == [k \in {} |-> JNull]

QAEngineer == <<"Q", "A">>
Brazil == [location |-> <<"B", "r", "a">>, country |-> <<"B", "r", "a">>]
indeed == <<"i", "n">>

\* DEFAULT_CONFIG, its search section
DEFAULT_SEARCH ==
    [k \in {"terms", "locations", "platforms"} |->
        CASE k = "terms" -> JList(<<Str(QAEngineer)>>)
          [] k = "locations" ->
                JList(<<LocEntry({"location", "country"}, Brazil.location, Brazil.country)>>)
          [] OTHER -> JList(<<Str(indeed)>>)]

\* a configuration: its 'search' value is a dict (d holds it), null or a string
Config(t, d) == [t |-> t, d |-> d]

DEFAULT_CONFIG == Config("dict", DEFAULT_SEARCH)

\* the loop of _merge_configs on the search section: `merged =
\* default_config.copy()`, then every key of the user replaces or adds
MergeKeys(user, default) ==
    [k \in DOMAIN default \cup DOMAIN user |-> IF k \in DOMAIN user THEN user[k] ELSE default[k]]

\* the conversion of a single location into a list, and the removal of the
\* old keys
ConvertLocation(d) ==
    [k \in (DOMAIN d \cup {"locations"}) \ {"location", "country"} |->
        IF k = "locations"
        THEN JList(<<LocEntry({"location", "country"}, d["location"].text,
                              IF "country" \in DOMAIN d THEN d["country"].text
                              ELSE d["location"].text)>>)
        ELSE d[k]]

\* _merge_configs(user_config, DEFAULT_CONFIG): the merged configuration,
\* or the TypeError of `'location' in None`
_merge_configs(user) ==
    IF user.search = "absent" THEN [err |-> FALSE, config |-> DEFAULT_CONFIG]
    ELSE IF user.search = "null" THEN [err |-> TRUE, config |-> DEFAULT_CONFIG]
    ELSE IF user.search = "str" THEN [err |-> FALSE, config |-> Config("str", NoKeys)]
    ELSE LET merged == MergeKeys(user.d, DEFAULT_SEARCH)
         IN IF "location" \in DOMAIN merged /\ "locations" \notin DOMAIN merged
            THEN [err |-> FALSE, config |-> Config("dict", ConvertLocation(merged))]
            ELSE [err |-> FALSE, config |-> Config("dict", merged)]

\* _load_config: the defaults when the file is missing, is not JSON, is
\* not an object or makes the merge raise
_load_config(user) ==
    IF user.file # "ok" \/ user.top # "dict" \/ _merge_configs(user).err
    THEN DEFAULT_CONFIG
    ELSE _merge_configs(user).config

\* `not search.get(key) or not isinstance(search[key], list)`
Get(d, key) == IF key \in DOMAIN d THEN d[key] ELSE JNull
Falsy(v) == v.t = "null" \/ (v.t = "list" /\ v.items = <<>>) \/ (v.t = "str" /\ v.text = <<>>)
NotNonEmptyList(d, key) == Falsy(Get(d, key)) \/ Get(d, key).t # "list"

\* the validation without the test of the platforms
_validate_config_no_platforms(cfg) ==
    IF cfg.t # "dict" THEN "AttributeError"
    ELSE IF NotNonEmptyList(cfg.d, "terms") THEN "ValueError"
    ELSE IF NotNonEmptyList(cfg.d, "locations") THEN "ValueError"
    ELSE IF \E i \in 1..Len(cfg.d["locations"].items) :
               LET loc == cfg.d["locations"].items[i]
               IN loc.t # "dict" \/ "location" \notin loc.keys \/ "country" \notin loc.keys
    THEN "ValueError"
    ELSE "ok"

\* _validate_config: "ok", or the error it raises
_validate_config(cfg) ==
    IF cfg.t # "dict" THEN "AttributeError"
    ELSE IF NotNonEmptyList(cfg.d, "terms") THEN "ValueError"
    ELSE IF NotNonEmptyList(cfg.d, "locations") THEN "ValueError"
    ELSE IF \E i \in 1..Len(cfg.d["locations"].items) :
               LET loc == cfg.d["locations"].items[i]
               IN loc.t # "dict" \/ "location" \notin loc.keys \/ "country" \notin loc.keys
    THEN "ValueError"
    ELSE IF NotNonEmptyList(cfg.d, "platforms") THEN "ValueError"
    ELSE "ok"

\* the arguments main gives to collect_and_export
TermsOf(cfg) == [i \in 1..Len(cfg.d["terms"].items) |-> cfg.d["terms"].items[i].text]
LocationsOf(cfg) ==
    [i \in 1..Len(cfg.d["locations"].items) |->
        [location |-> cfg.d["locations"].items[i].location,
         country |-> cfg.d["locations"].items[i].country]]

\* config.json: missing, not JSON, or JSON whose top level is an object or
\* a list; the 'search' key missing, null, a string or an object
UserConfig(file, top, search, d) == [file |-> file, top |-> top, search |-> search, d |-> d]

NoConfigFile == UserConfig("absent", "dict", "absent", NoKeys)

(* ---------------------------- collector -------------------------------- *)

VARIABLES
    pc,              \* position of collect_and_export
    search_terms,    \* argument: the list of terms
    locations,       \* argument: the list of location configs
    delay,           \* argument: delay_between_searches
    current_search,  \* searches started so far
    calls,           \* the calls made to JobScraper.search, in order
    events,          \* the calls and the pauses, in order
    log,             \* per task: "error", "nodata" or "ok"
    all_jobs,        \* the accumulator of tagged batches
    consolidated,    \* result of pd.concat
    unique_jobs,     \* result of drop_duplicates
    clean_jobs,      \* result of JobDataCleaner.clean
    written,         \* the output files completely written
    created,         \* the output files that exist, complete or not
    swept,           \* the records of _export_json after _clean_for_json
    caught,          \* the error caught by export: "none", "io", "type", "value"
    result,          \* the value returned: "none" while running
    user_config,     \* the content of config.json
    config           \* ConfigLoader.config

vars == <<pc, search_terms, locations, delay, current_search, calls, events, log,
          all_jobs, consolidated, unique_jobs, clean_jobs, written, created, swept,
          caught, result, user_config, config>>

configVars == <<user_config, config>>

exportVars == <<written, created, swept, caught>>

total_searches == Len(search_terms) * Len(locations)

\* the loops nested the other way round: terms outside, locations inside
TaskAtTermsOuter(n) ==
    LET loc == locations[((n - 1) % Len(locations)) + 1]
    IN [search_term |-> search_terms[((n - 1) \div Len(locations)) + 1],
        location |-> loc.location,
        country |-> loc.country]

\* the n-th iteration (n >= 1) of `for location_config in locations:
\* for term in search_terms`
TaskAt(n) ==
    LET loc == locations[((n - 1) \div Len(search_terms)) + 1]
    IN [search_term |-> search_terms[((n - 1) % Len(search_terms)) + 1],
        location |-> loc.location,
        country |-> loc.country]

\* the test forgotten: whatever the scraper returns is appended
AcceptsAnything(jobs) == TRUE

\* `jobs is not None and not jobs.empty`
Accepts(jobs) == ~jobs.none /\ ~Empty(jobs)

\* tagging that keeps a column the provider already filled
SetColumnIfMissing(df, col, value) == IF col \in df.cols THEN df ELSE SetColumn(df, col, value)

TagIfMissing(jobs, task) ==
    SetColumnIfMissing(
        SetColumnIfMissing(
            SetColumnIfMissing(jobs, "search_term", S(task.search_term)),
            "search_location", S(task.location)),
        "search_country", S(task.country))

\* the three assignments jobs["search_..."] = ...
Tag(jobs, task) ==
    SetColumn(SetColumn(SetColumn(jobs, "search_term", S(task.search_term)),
                        "search_location", S(task.location)),
              "search_country", S(task.country))

\* the pause taken after every search, the last one included
MustWaitAlways(current, total) == current <= total

\* `if current_search < total_searches`
MustWait(current, total) == current < total

CallEvent == [ev |-> "call", secs |-> 0]
PauseEvent(seconds) == [ev |-> "pause", secs |-> seconds]

RunInit(terms, locs) ==
    /\ search_terms = terms
    /\ locations = locs
    /\ current_search = 0
    /\ calls = <<>>
    /\ events = <<>>
    /\ log = <<>>
    /\ all_jobs = <<>>
    /\ consolidated = NoFrame
    /\ unique_jobs = NoFrame
    /\ clean_jobs = NoFrame
    /\ written = {}
    /\ created = {}
    /\ swept = <<>>
    /\ caught = "none"
    /\ result = "none"
    /\ user_config = NoConfigFile
    /\ config = DEFAULT_CONFIG
    /\ pc = IF Len(terms) * Len(locs) = 0 THEN "post" ELSE "search"

Init ==
    /\ delay \in Delays
    /\ \E terms \in SeqsUpTo(TermSet, MaxTerms), locs \in SeqsUpTo(LocSet, MaxLocs) :
          /\ Len(terms) * Len(locs) <= MaxSearches
          /\ RunInit(terms, locs)

\* one iteration of the loops up to the pause: the call of the scraper,
\* the tagging and the append
SearchWith(outcomes) ==
    /\ pc = "search"
    /\ \E out \in outcomes :
          LET n == current_search + 1
              task == TaskAt(n)
              r == ScraperSearch(out)
          IN /\ current_search' = n
             /\ calls' = Append(calls, task)
             /\ events' = Append(events, CallEvent)
             /\ IF r.raised
                THEN /\ pc' = "raised"
                     /\ UNCHANGED <<log, all_jobs>>
                ELSE /\ log' = Append(log, OutcomeKind(out))
                     /\ all_jobs' = IF Accepts(r.jobs)
                                    THEN Append(all_jobs, Tag(r.jobs, task))
                                    ELSE all_jobs
                     /\ pc' = IF MustWait(n, total_searches) THEN "wait"
                              ELSE IF n < total_searches THEN "search" ELSE "post"
    /\ UNCHANGED <<configVars, search_terms, locations, delay, consolidated, unique_jobs,
                   clean_jobs, exportVars, result>>

Search == SearchWith(RunOutcomes)

\* _wait_between_searches(delay_between_searches)
Wait ==
    /\ pc = "wait"
    /\ events' = Append(events, PauseEvent(delay))
    /\ pc' = IF current_search < total_searches THEN "search" ELSE "post"
    /\ UNCHANGED <<configVars, search_terms, locations, delay, current_search, calls, log,
                   all_jobs, consolidated, unique_jobs, clean_jobs, exportVars, result>>

\* `if not all_jobs: ... return False`
NoResults ==
    /\ pc = "post"
    /\ all_jobs = <<>>
    /\ result' = "False"
    /\ pc' = "done"
    /\ UNCHANGED <<configVars, search_terms, locations, delay, current_search, calls, events,
                   log, all_jobs, consolidated, unique_jobs, clean_jobs, exportVars>>

\* _consolidate_and_export(all_jobs, output_filename)
ConsolidateAndExport ==
    /\ pc = "post"
    /\ all_jobs # <<>>
    /\ \E io \in IOOutcomes :
          LET c == Concat(all_jobs)
              u == Deduplicate(c)
              cl == clean(u)
              ex == export(cl, io)
          IN /\ consolidated' = c
             /\ unique_jobs' = u
             /\ clean_jobs' = cl
             /\ written' = ex.written
             /\ created' = ex.created
             /\ swept' = ex.swept
             /\ caught' = ex.caught
             /\ result' = IF ex.raises THEN "none" ELSE IF ex.ok THEN "True" ELSE "False"
             /\ pc' = IF ex.raises THEN "raised" ELSE "done"
    /\ UNCHANGED <<configVars, search_terms, locations, delay, current_search, calls, events,
                   log, all_jobs>>

Next == Search \/ Wait \/ NoResults \/ ConsolidateAndExport

Spec == Init /\ [][Next]_vars

(* ---------------------------- properties: the search loop -------------- *)

TasksOf(loc, terms) ==
    [j \in 1..Len(terms) |->
        [search_term |-> terms[j], location |-> loc.location, country |-> loc.country]]

\* the tasks of a run: locations outside, terms inside
RECURSIVE CrossProduct(_, _)
CrossProduct(locs, terms) ==
    IF locs = <<>> THEN <<>>
    ELSE TasksOf(Head(locs), terms) \o CrossProduct(Tail(locs), terms)

Finished == pc = "done"

OkTasks == {i \in 1..Len(log) : log[i] = "ok"}

\* the positions of the tasks that returned records, in order
OkPositions == Pick([i \in 1..Len(log) |-> i], OkTasks, 1)

RowCount(df) == Len(df.rows)

RECURSIVE TotalRows(_)
TotalRows(frames) == IF frames = <<>> THEN 0 ELSE RowCount(Head(frames)) + TotalRows(Tail(frames))

\* C1: the calls made so far are a prefix of the cross product taken with
\* the locations outside and the terms inside, each call carrying one term
\* of the list; when the run has finished every combination was called once.
C1_CallsFollowCrossProduct ==
    LET expected == CrossProduct(locations, search_terms)
    IN /\ Len(calls) <= Len(expected)
       /\ calls = SubSeq(expected, 1, Len(calls))
       /\ \A i \in 1..Len(calls) : calls[i].search_term \in TermSet
       /\ Finished => calls = expected

C1_Witness ==
    /\ Finished
    /\ Len(search_terms) = 2 /\ search_terms[1] # search_terms[2]
    /\ Len(locations) = 2 /\ locations[1] # locations[2]
    /\ Len(calls) = 4

\* C2: no exception of the provider leaves the search; a task that failed
\* or returned nothing adds no batch to the accumulator, and the run
\* finishes only when every task of the cross product has been called.
C2_FailureIsolated ==
    /\ pc # "raised"
    /\ Len(log) = Len(calls)
    /\ Len(all_jobs) = Cardinality(OkTasks)
    /\ Finished => Len(calls) = total_searches

C2_Witness ==
    /\ Finished
    /\ \E i, j, k \in 1..Len(log) :
          i < j /\ i < k /\ log[i] = "error" /\ log[j] = "nodata" /\ log[k] = "ok"

\* C3: a finished run of N >= 1 tasks made N calls and N-1 pauses: calls
\* and pauses alternate, starting and ending with a call, and every pause
\* lasts the configured delay.
C3_PausesBetweenCalls ==
    (Finished /\ total_searches >= 1) =>
        /\ Len(events) = 2 * total_searches - 1
        /\ \A k \in 1..Len(events) :
              events[k] = IF k % 2 = 1 THEN CallEvent ELSE PauseEvent(delay)

C3_Witness ==
    /\ Finished
    /\ total_searches = 4
    /\ delay = 2
    /\ Cardinality({k \in 1..Len(events) : events[k].ev = "pause"}) = 3
    /\ log[1] = "error" /\ log[2] = "nodata" /\ log[3] = "ok"

\* C4: the run returns only when it has finished; a finished run in which
\* no task returned records called every task, returned False and did not
\* consolidate, clean or export: no file was written.
C4_ExhaustedRunFails ==
    /\ result # "none" => Finished
    /\ (Finished /\ OkTasks = {}) =>
          /\ result = "False"
          /\ Len(calls) = total_searches
          /\ consolidated = NoFrame
          /\ unique_jobs = NoFrame
          /\ clean_jobs = NoFrame
          /\ written = {}
          /\ created = {}

C4_Witness ==
    /\ Finished
    /\ total_searches = 4
    /\ OkTasks = {}
    /\ \E i, j \in 1..Len(log) : log[i] = "error" /\ log[j] = "nodata"

\* C5 as stated: a run in which some task returned at least one record
\* reports success.
C5_PartialSuccessSucceeds ==
    (Finished /\ OkTasks # {}) => result = "True"

\* C5 amended: a run in which some task returned at least one record is
\* never reported as exhausted: it consolidates exactly the batches of the
\* tasks that returned records, cleans and exports them, and returns True
\* exactly when cleaning left at least one record and the export wrote
\* both files.
C5_PartialSuccessProceeds ==
    (Finished /\ OkTasks # {}) =>
        /\ ~consolidated.none
        /\ RowCount(consolidated) = TotalRows(all_jobs)
        /\ RowCount(consolidated) >= Cardinality(OkTasks)
        /\ ~unique_jobs.none
        /\ clean_jobs = clean(unique_jobs)
        /\ result \in {"True", "False"}
        /\ result = "True" <=> (~clean_jobs.none /\ written = {"csv", "json"})

C5_Witness ==
    /\ Finished
    /\ total_searches = 4
    /\ log[1] = "ok" /\ log[3] = "error" /\ log[4] = "nodata"
    /\ result = "True"

\* C6: every row of the j-th batch of the accumulator carries the term,
\* location and country of the j-th task that returned records, whatever
\* the provider had put in these columns.
C6_TagsFromTask ==
    /\ Len(all_jobs) = Len(OkPositions)
    /\ \A j \in 1..Len(all_jobs) :
          LET task == calls[OkPositions[j]]
              batch == all_jobs[j]
          IN /\ {"search_term", "search_location", "search_country"} \subseteq batch.cols
             /\ \A i \in 1..Len(batch.rows) :
                   /\ batch.rows[i]["search_term"] = S(task.search_term)
                   /\ batch.rows[i]["search_location"] = S(task.location)
                   /\ batch.rows[i]["search_country"] = S(task.country)

\* a batch whose provider had filled search_term itself is in the accumulator
C6_Witness ==
    \E j \in 1..Len(all_jobs) :
        /\ all_jobs[j].rows[1]["id"] = PostingB.rows[1]["id"]
        /\ PostingB.rows[1]["search_term"] # all_jobs[j].rows[1]["search_term"]
        /\ log[1] = "nodata"

(* ---------------------------- consolidation ---------------------------- *)

\* the frames with the columns `cols`, 1..MaxRows rows, each cell of column
\* c drawn from dom[c]
RowsOver(cols, dom) ==
    {r \in [cols -> UNION {dom[c] : c \in cols}] : \A c \in cols : r[c] \in dom[c]}

FramesOver(cols, dom) ==
    {Frame(cols, rows) : rows \in UNION {[1..m -> RowsOver(cols, dom)] : m \in 1..MaxRows}}

\* what the provider returns in the runs that exercise the consolidation:
\* postings with or without the id column
DedupValues ==
    [c \in {"id", "description"} |->
        IF c = "id" THEN {S(<<"a">>), S(<<"b">>)} ELSE {S(<<"x">>), S(<<"y">>)}]

DedupOutcomes ==
    {Raises, Returns(NoFrame)}
    \cup {Returns(df) : df \in FramesOver({"description"}, DedupValues)}
    \cup {Returns(df) : df \in FramesOver({"id", "description"}, DedupValues)}

\* a run of two searches at one location; the two terms may be the same
DedupInit ==
    /\ delay = 10
    /\ \E term \in TermSet : RunInit(<<<<"q", "a">>, term>>, <<Recife>>)

SearchDedup == SearchWith(DedupOutcomes)

NextDedup == SearchDedup \/ Wait \/ NoResults \/ ConsolidateAndExport

SpecDedup == DedupInit /\ [][NextDedup]_vars

Positions(df) == 1..Len(df.rows)

\* the first row of the consolidated set that carries the identifier v
FirstWithId(v) ==
    CHOOSE i \in Positions(consolidated) :
        /\ consolidated.rows[i]["id"] = v
        /\ \A j \in 1..(i - 1) : consolidated.rows[j]["id"] # v

\* the first row of the consolidated set equal to the row r
FirstEqual(r) ==
    CHOOSE i \in Positions(consolidated) :
        /\ consolidated.rows[i] = r
        /\ \A j \in 1..(i - 1) : consolidated.rows[j] # r

Consolidated == Finished /\ ~consolidated.none

\* C7: when the consolidated set has the id column, every identifier of the
\* consolidated set is carried by exactly one surviving row, that row is the
\* first row of the consolidated set with that identifier, and the
\* survivors stand in the order of these first rows.
C7_IdDedupKeepsFirst ==
    (Consolidated /\ "id" \in consolidated.cols) =>
        LET ids == {consolidated.rows[i]["id"] : i \in Positions(consolidated)} \ {NONE, NAN}
            withId == {j \in Positions(unique_jobs) : NotNa(unique_jobs.rows[j]["id"])}
        IN /\ unique_jobs.cols = consolidated.cols
           /\ \A v \in ids :
                 /\ Cardinality({j \in Positions(unique_jobs) : unique_jobs.rows[j]["id"] = v}) = 1
                 /\ \A j \in Positions(unique_jobs) :
                       unique_jobs.rows[j]["id"] = v =>
                           unique_jobs.rows[j] = consolidated.rows[FirstWithId(v)]
           /\ \A j \in withId : unique_jobs.rows[j]["id"] \in ids
           /\ \A j, k \in withId :
                 j < k => FirstWithId(unique_jobs.rows[j]["id"])
                              < FirstWithId(unique_jobs.rows[k]["id"])

\* two batches share an identifier with different descriptions, and a
\* second identifier survives next to it
C7_Witness ==
    /\ Consolidated
    /\ "id" \in consolidated.cols
    /\ Len(all_jobs) = 2
    /\ "id" \in all_jobs[1].cols \cap all_jobs[2].cols
    /\ all_jobs[1].rows[1]["id"] = all_jobs[2].rows[1]["id"]
    /\ all_jobs[1].rows[1]["description"] # all_jobs[2].rows[1]["description"]
    /\ RowCount(unique_jobs) = 2
    /\ RowCount(consolidated) = 4

\* C8: when the consolidated set has no id column, no two surviving rows
\* are equal on every column, every row of the consolidated set is equal to
\* a surviving row, and the survivors are the first occurrences, in order.
C8_RowDedupFallback ==
    (Consolidated /\ "id" \notin consolidated.cols) =>
        /\ unique_jobs.cols = consolidated.cols
        /\ \A j, k \in Positions(unique_jobs) :
              j < k => unique_jobs.rows[j] # unique_jobs.rows[k]
        /\ \A i \in Positions(consolidated) :
              \E j \in Positions(unique_jobs) : unique_jobs.rows[j] = consolidated.rows[i]
        /\ \A j \in Positions(unique_jobs) :
              \E i \in Positions(consolidated) : unique_jobs.rows[j] = consolidated.rows[i]
        /\ \A j, k \in Positions(unique_jobs) :
              j < k => FirstEqual(unique_jobs.rows[j]) < FirstEqual(unique_jobs.rows[k])

\* two equal rows collapsed, and two rows that differ in search_term only
\* both survived
C8_Witness ==
    /\ Consolidated
    /\ "id" \notin consolidated.cols
    /\ \E i, j \in Positions(consolidated) : i < j /\ consolidated.rows[i] = consolidated.rows[j]
    /\ \E j, k \in Positions(unique_jobs) :
          /\ unique_jobs.rows[j]["search_term"] # unique_jobs.rows[k]["search_term"]
          /\ \A c \in unique_jobs.cols \ {"search_term"} :
                unique_jobs.rows[j][c] = unique_jobs.rows[k][c]

(* ---------------------------- cleaning --------------------------------- *)

\* the values of the frames given to JobDataCleaner.clean: descriptions
\* absent, empty, blank or filled; amounts present or not-a-number; titles
\* that spell "NaN"; a column outside the essential ones
CleanValues ==
    [c \in {"description", "min_amount", "title", "company_url"} |->
        CASE c = "description" -> {NONE, NAN, S(<<>>), S(<<" ">>), S(<<"x">>)}
          [] c = "min_amount" -> {NAN, F(50)}
          [] c = "title" -> {S(<<"N", "a", "N">>), S(<<"t">>)}
          [] OTHER -> {S(<<"u">>)}]

CleanInputs ==
    {NoFrame}
    \cup {Frame(cols, <<>>) : cols \in SUBSET DOMAIN CleanValues}
    \cup UNION {FramesOver(cols, CleanValues) : cols \in SUBSET DOMAIN CleanValues}

\* JobDataCleaner.clean is called on a frame: unique_jobs is its argument
CleanInit ==
    /\ pc = "clean"
    /\ unique_jobs \in CleanInputs
    /\ clean_jobs = NoFrame
    /\ search_terms = <<>>
    /\ locations = <<>>
    /\ delay = 10
    /\ current_search = 0
    /\ calls = <<>>
    /\ events = <<>>
    /\ log = <<>>
    /\ all_jobs = <<>>
    /\ consolidated = NoFrame
    /\ written = {}
    /\ created = {}
    /\ swept = <<>>
    /\ caught = "none"
    /\ result = "none"
    /\ user_config = NoConfigFile
    /\ config = DEFAULT_CONFIG

CleanCall ==
    /\ pc = "clean"
    /\ clean_jobs' = clean(unique_jobs)
    /\ pc' = "cleaned"
    /\ UNCHANGED <<configVars, search_terms, locations, delay, current_search, calls, events, log,
                   all_jobs, consolidated, unique_jobs, exportVars, result>>

NextClean == CleanCall

SpecClean == CleanInit /\ [][NextClean]_vars

Cleaned == pc = "cleaned"

\* a description that is absent or the empty string
NoDescription(v) == v = NONE \/ v = NAN \/ v = S(<<>>)

WithDescription(row) == ~NoDescription(row["description"])

\* C9: when the frame given to clean has a description column, the rows
\* that clean returns are the rows whose description is neither absent nor
\* the empty string, in order (a returned description is the given one or
\* null); when the frame has no description column and has an essential
\* column, clean returns as many rows as it was given.
C9_DescriptionGate ==
    (Cleaned /\ ~unique_jobs.none) =>
        IF "description" \in unique_jobs.cols
        THEN LET kept == SelectSeq(unique_jobs.rows, WithDescription)
             IN /\ RowCount(clean_jobs) = Len(kept)
                /\ \A i \in Positions(clean_jobs) :
                      /\ clean_jobs.rows[i]["description"] \in {kept[i]["description"], NONE}
                      /\ \A c \in clean_jobs.cols \ {"description"} :
                            clean_jobs.rows[i][c] \in {kept[i][c], NONE, NAN}
        ELSE (unique_jobs.cols \cap ESSENTIAL_COLUMNS # {}) =>
                 RowCount(clean_jobs) = RowCount(unique_jobs)

\* a row with an empty description was dropped and a row with a description
\* was kept
C9_Witness ==
    /\ Cleaned
    /\ "description" \in unique_jobs.cols
    /\ RowCount(unique_jobs) = 2
    /\ unique_jobs.rows[1]["description"] = S(<<>>)
    /\ unique_jobs.rows[2]["description"] = S(<<"x">>)
    /\ RowCount(clean_jobs) = 1
    /\ clean_jobs.rows[1]["description"] = S(<<"x">>)

\* a value that is null or a scalar that is not NaN-like
ValidValue(v) ==
    \/ v.k = "none"
    \/ v.k = "float" /\ ~v.nan
    \/ v.k = "str" /\ Strip(v.s) # <<>> /\ Lower(v.s) # <<"n", "a", "n">>

\* C10: in every row of the frame returned by clean, every value is null or
\* a scalar that is not NaN-like.
C10_CleanedValuesValid ==
    (Cleaned /\ ~clean_jobs.none) =>
        \A i \in Positions(clean_jobs) :
            \A c \in clean_jobs.cols : ValidValue(clean_jobs.rows[i][c])

\* the frame given to clean had rows and columns
Populated(df) == ~df.none /\ ~Empty(df)

\* the frame given to clean had rows, and none of them is returned
EmptiedByCleaning == Cleaned /\ Populated(unique_jobs) /\ RowCount(clean_jobs) = 0

\* C11 as stated: what clean returns for a set that became empty during
\* cleaning differs from what it returns for an absent input and for an
\* input without rows.
C11_EmptiedDistinguishable ==
    EmptiedByCleaning =>
        /\ clean_jobs # clean(NoFrame)
        /\ clean_jobs # clean(Frame(unique_jobs.cols, <<>>))

\* C11 amended: clean never returns a set without records: it returns None
\* when cleaning leaves no record, and that is also what it returns for an
\* absent input and for an input without rows, so the outcome alone does
\* not tell the two apart.
C11_NoDataIsNone ==
    Cleaned =>
        /\ clean_jobs.none \/ Populated(clean_jobs)
        /\ ~Populated(unique_jobs) => clean_jobs = NoFrame
        /\ EmptiedByCleaning => clean_jobs = NoFrame

\* every row of a frame of two rows was dropped by the description gate
C11_Witness ==
    /\ EmptiedByCleaning
    /\ RowCount(unique_jobs) = 2
    /\ "description" \in unique_jobs.cols
    /\ clean_jobs = NoFrame

\* C18: when the frame given to clean has a description column, no row of
\* the frame that clean returns has a null description.
C18_ReturnedDescriptionsFilled ==
    (Cleaned /\ ~unique_jobs.none /\ "description" \in unique_jobs.cols /\ ~clean_jobs.none) =>
        \A i \in Positions(clean_jobs) : NotNa(clean_jobs.rows[i]["description"])

\* C17: when the consolidated set has the id column, a row is removed only
\* if an earlier row carries the same identifier and that identifier is not
\* absent: as many rows with an absent identifier survive as were
\* consolidated.
C17_AbsentIdsNeverCollapse ==
    (Consolidated /\ "id" \in consolidated.cols) =>
        Cardinality({j \in Positions(unique_jobs) : ~NotNa(unique_jobs.rows[j]["id"])})
            = Cardinality({i \in Positions(consolidated) : ~NotNa(consolidated.rows[i]["id"])})

(* ------------------------------ export ------------------------------- *)

\* the values of the frames given to JobExporter.export: titles filled,
\* spelling "NaN" or blank; amounts present or not-a-number; dates; and a
\* column that may hold a value of a type json does not know
ExportValues ==
    [c \in {"title", "min_amount", "date_posted", "emails"} |->
        CASE c = "title" -> {S(<<"t">>), S(<<"N", "a", "N">>), S(<<" ">>)}
          [] c = "min_amount" -> {NAN, F(50)}
          [] c = "date_posted" -> {D(<<"2", "0", "2", "5">>)}
          [] OTHER -> {S(<<"e">>), OBJECT}]

ExportInputs ==
    {NoFrame}
    \cup {Frame(cols, <<>>) : cols \in SUBSET DOMAIN ExportValues}
    \cup UNION {FramesOver(cols, ExportValues) : cols \in SUBSET DOMAIN ExportValues}

\* JobExporter.export is called on a frame: clean_jobs is its argument
ExportInit ==
    /\ pc = "export"
    /\ clean_jobs \in ExportInputs
    /\ unique_jobs = NoFrame
    /\ search_terms = <<>>
    /\ locations = <<>>
    /\ delay = 10
    /\ current_search = 0
    /\ calls = <<>>
    /\ events = <<>>
    /\ log = <<>>
    /\ all_jobs = <<>>
    /\ consolidated = NoFrame
    /\ written = {}
    /\ created = {}
    /\ swept = <<>>
    /\ caught = "none"
    /\ result = "none"
    /\ user_config = NoConfigFile
    /\ config = DEFAULT_CONFIG

ExportCall ==
    /\ pc = "export"
    /\ \E io \in IOOutcomes :
          LET ex == export(clean_jobs, io)
          IN /\ written' = ex.written
             /\ created' = ex.created
             /\ swept' = ex.swept
             /\ caught' = ex.caught
             /\ result' = IF ex.raises THEN "none" ELSE IF ex.ok THEN "True" ELSE "False"
             /\ pc' = IF ex.raises THEN "raised" ELSE "exported"
    /\ UNCHANGED <<configVars, search_terms, locations, delay, current_search, calls, events, log,
                   all_jobs, consolidated, unique_jobs, clean_jobs>>

NextExport == ExportCall

SpecExport == ExportInit /\ [][NextExport]_vars

\* export has returned
Exported == pc = "exported"

\* C12: export never raises; it returns True only for a set with records
\* of which both files were completely written; for an absent or empty set
\* it returns False and creates no file.
C12_ExportSuccessRule ==
    /\ pc # "raised"
    /\ Exported =>
          /\ result \in {"True", "False"}
          /\ result = "True" => (Populated(clean_jobs) /\ written = {"csv", "json"})
          /\ ~Populated(clean_jobs) => (result = "False" /\ created = {} /\ written = {})

\* the tabular file of a set of two records was written and the document
\* was not: export returned False
C12_Witness ==
    /\ Exported
    /\ RowCount(clean_jobs) = 2
    /\ written = {"csv"}
    /\ result = "False"

\* export reached _export_json: the records were swept
Swept == Exported /\ Len(swept) = RowCount(clean_jobs) /\ Populated(clean_jobs)

\* the value was not null and the rule makes it null
Nulls(before, after) == before # NONE /\ after = NONE

\* a string that is empty once its surrounding whitespace is removed
Blank(v) == v.k = "str" /\ Strip(v.s) = <<>>

\* C13 as stated: the sweep of the export makes a value null exactly when
\* the rule of the cleaner makes it null.
C13_SweepSameAsCleaner ==
    Swept =>
        \A i \in Positions(clean_jobs) : \A c \in clean_jobs.cols :
            Nulls(clean_jobs.rows[i][c], swept[i][c])
                <=> Nulls(clean_jobs.rows[i][c], _clean_value(clean_jobs.rows[i][c]))

\* C13 amended: the sweep of the export makes null the not-a-number values
\* and the strings that spell "nan" in any case, as the cleaner does, and
\* leaves every other value as it is; unlike the cleaner it keeps the
\* strings that are empty or only whitespace.
C13_SweepNullsNanOnly ==
    Swept =>
        \A i \in Positions(clean_jobs) : \A c \in clean_jobs.cols :
            LET v == clean_jobs.rows[i][c]
            IN /\ ~Blank(v) => (Nulls(v, swept[i][c]) <=> Nulls(v, _clean_value(v)))
               /\ Blank(v) => (swept[i][c] = v /\ Nulls(v, _clean_value(v)))
               /\ swept[i][c] \in {v, NONE}

\* one record with a title that spells "NaN" and an amount that is
\* not-a-number, both made null, and one with a blank title that is kept
C13_Witness ==
    /\ Swept
    /\ RowCount(clean_jobs) = 2
    /\ {"title", "min_amount"} \subseteq clean_jobs.cols
    /\ clean_jobs.rows[1]["title"] = S(<<"N", "a", "N">>)
    /\ clean_jobs.rows[1]["min_amount"] = NAN
    /\ swept[1]["title"] = NONE
    /\ swept[1]["min_amount"] = NONE
    /\ swept[2]["title"] = S(<<" ">>)

\* a value whose type the document writer does not recognise is among the
\* records handed to json.dump, and the file system lets the writer run
Unrecognised(v) == v.k = "object"

UnrecognisedReachesWriter ==
    /\ Swept
    /\ "json" \in created
    /\ caught # "io"
    /\ \E i \in 1..Len(swept) : \E c \in DOMAIN swept[i] : Unrecognised(swept[i][c])

\* C14 as stated: a value of an unrecognised type makes the export end
\* with a type error that reaches the caller, not with the ordinary
\* failure result.
C14_TypeErrorSurfaces ==
    (pc \in {"exported", "raised"} /\ caught = "type") => (pc = "raised" /\ result = "none")

\* C14 amended: a value of an unrecognised type is never coerced: the
\* serializer rejects it with a type error and the document is not
\* completed; export catches that error as it catches every error of the
\* writes and returns the ordinary failure result, False.
C14_TypeErrorCaught ==
    /\ UnrecognisedReachesWriter =>
          /\ caught = "type"
          /\ "json" \notin written
          /\ result = "False"
    /\ caught = "type" => (Exported /\ UnrecognisedReachesWriter)

\* two records, the second with a value of an unrecognised type: the
\* tabular file is written, the document is not, export returns False
C14_Witness ==
    /\ UnrecognisedReachesWriter
    /\ RowCount(clean_jobs) = 2
    /\ ~Unrecognised(swept[1]["emails"])
    /\ Unrecognised(swept[2]["emails"])
    /\ caught = "type"
    /\ written = {"csv"}
    /\ result = "False"

\* C16 as stated: the two writes are independent: when the tabular write
\* fails the document write is still attempted, and when the document
\* write fails the tabular file stays.
C16_WritesIndependent ==
    (Exported /\ Populated(clean_jobs)) =>
        /\ "csv" \notin written => Len(swept) = RowCount(clean_jobs)
        /\ ("csv" \in written /\ "json" \notin written) => "csv" \in created

\* C16 amended: the two writes are made one after the other: when the
\* tabular write fails the document write is not attempted and no document
\* file is created; when the document write fails the tabular file
\* already written stays, and export returns False in both cases.
C16_WritesSequential ==
    (Exported /\ Populated(clean_jobs)) =>
        /\ "csv" \notin written =>
              (swept = <<>> /\ "json" \notin created /\ caught = "io" /\ result = "False")
        /\ (caught # "none" /\ swept # <<>>) =>
              (written = {"csv"} /\ "csv" \in created /\ result = "False")
        /\ result = "False" <=> caught # "none"

\* the document of two records could not be opened: the tabular file is
\* the only file there is
C16_Witness ==
    /\ Exported
    /\ RowCount(clean_jobs) = 2
    /\ caught = "io"
    /\ swept # <<>>
    /\ written = {"csv"}
    /\ created = {"csv"}
    /\ result = "False"

(* ------------------------------- main -------------------------------- *)

\* a key that config.json does not have
JAbsent == [t |-> "absent", text |-> <<>>, items |-> <<>>]

\* what config.json may give for each key of the search section
TermsChoices ==
    {JAbsent, JNull, JStr(<<"q", "a">>), JList(<<>>), JList(<<Str(<<"q", "a">>)>>),
     JList(<<Str(<<"q", "a">>), Str(<<"d", "e", "v">>)>>)}

LocationsChoices ==
    {JAbsent, JNull, JDict, JList(<<>>),
     JList(<<Str(Recife.location)>>),
     JList(<<LocEntry({"location"}, Recife.location, <<>>)>>),
     JList(<<LocEntry({"location", "country"}, Recife.location, Recife.country)>>),
     JList(<<LocEntry({"location", "country"}, Recife.location, Recife.country),
             LocEntry({"location", "country"}, Lisbon.location, Lisbon.country)>>)}

PlatformsChoices == {JAbsent, JStr(indeed), JList(<<>>), JList(<<Str(indeed)>>)}

LocationChoices == {JAbsent, JStr(Lisbon.location)}

CountryChoices == {JAbsent, JStr(Lisbon.country)}

SearchKeys == {"terms", "locations", "platforms", "location", "country"}

\* the dict with the keys that are given
Present(f) == [k \in {x \in DOMAIN f : f[x] # JAbsent} |-> f[k]]

SearchDicts ==
    {Present([k \in SearchKeys |->
                CASE k = "terms" -> t
                  [] k = "locations" -> l
                  [] k = "platforms" -> p
                  [] k = "location" -> lo
                  [] OTHER -> co]) :
        t \in TermsChoices, l \in LocationsChoices, p \in PlatformsChoices,
        lo \in LocationChoices, co \in CountryChoices}

UserConfigs ==
    {NoConfigFile,
     UserConfig("invalid_json", "dict", "absent", NoKeys),
     UserConfig("ok", "list", "absent", NoKeys),
     UserConfig("ok", "dict", "absent", NoKeys),
     UserConfig("ok", "dict", "null", NoKeys),
     UserConfig("ok", "dict", "str", NoKeys)}
    \cup {UserConfig("ok", "dict", "dict", d) : d \in SearchDicts}

\* what the provider does in the runs started by main
MainOutcomes == {Raises, Returns(NoFrame), Returns(PostingA)}

\* main before `config = ConfigLoader("config.json")`
MainInit ==
    /\ pc = "load"
    /\ user_config \in UserConfigs
    /\ config = DEFAULT_CONFIG
    /\ search_terms = <<>>
    /\ locations = <<>>
    /\ delay = 10
    /\ current_search = 0
    /\ calls = <<>>
    /\ events = <<>>
    /\ log = <<>>
    /\ all_jobs = <<>>
    /\ consolidated = NoFrame
    /\ unique_jobs = NoFrame
    /\ clean_jobs = NoFrame
    /\ written = {}
    /\ created = {}
    /\ swept = <<>>
    /\ caught = "none"
    /\ result = "none"

\* ConfigLoader.__init__, and main up to the call of collect_and_export:
\* an error of the validation leaves main
LoadConfig ==
    /\ pc = "load"
    /\ LET cfg == _load_config(user_config)
           v == _validate_config(cfg)
       IN /\ config' = cfg
          /\ IF v = "ok"
             THEN /\ search_terms' = TermsOf(cfg)
                  /\ locations' = LocationsOf(cfg)
                  /\ pc' = "search"
             ELSE /\ UNCHANGED <<search_terms, locations>>
                  /\ pc' = IF v = "ValueError" THEN "config_error" ELSE "crashed"
    /\ UNCHANGED <<user_config, delay, current_search, calls, events, log, all_jobs,
                   consolidated, unique_jobs, clean_jobs, exportVars, result>>

SearchMain == SearchWith(MainOutcomes)

NextMain == LoadConfig \/ SearchMain \/ Wait \/ NoResults \/ ConsolidateAndExport

SpecMain == MainInit /\ [][NextMain]_vars

\* the constructor of ConfigLoader has returned or raised
Loaded == pc # "load"

\* a value that is not a list or is an empty list
BadList(v) == v.t # "list" \/ v.items = <<>>

\* an entry of the locations that is not an object with both keys
BadEntry(e) == e.t # "dict" \/ ~({"location", "country"} \subseteq e.keys)

\* a search section whose terms, locations or platforms are missing, empty
\* or not a list, or with a bad location entry
BrokenSearch(d, required) ==
    \E k \in required :
        \/ k \notin DOMAIN d
        \/ BadList(d[k])
        \/ k = "locations" /\ \E i \in 1..Len(d[k].items) : BadEntry(d[k].items[i])

\* config.json gives a value for a required field and the value is bad
UserBreaksConfig ==
    /\ user_config.file = "ok"
    /\ user_config.top = "dict"
    /\ user_config.search = "dict"
    /\ BrokenSearch(user_config.d, {"terms", "locations", "platforms"} \cap DOMAIN user_config.d)

\* C15: no call is made before the configuration is constructed; a
\* configuration whose terms, locations or platforms are empty or not a
\* list, or with a location entry lacking 'location' or 'country', makes the
\* constructor raise, and the run makes no call, takes no pause, returns
\* nothing and writes no file; calls are made only under a sound
\* configuration.
C15_InvalidConfigAborts ==
    /\ ~Loaded => calls = <<>>
    /\ (Loaded /\ (UserBreaksConfig
                   \/ (config.t = "dict"
                       /\ BrokenSearch(config.d, {"terms", "locations", "platforms"})))) =>
          /\ pc = "config_error"
          /\ calls = <<>>
          /\ events = <<>>
          /\ result = "none"
          /\ created = {}
    /\ calls # <<>> =>
          (config.t = "dict" /\ ~BrokenSearch(config.d, {"terms", "locations", "platforms"}))

\* config.json gives terms and locations that are sound and an empty list
\* of platforms: the constructor raised and nothing was called
C15_Witness ==
    /\ pc = "config_error"
    /\ user_config.search = "dict"
    /\ {"terms", "locations", "platforms"} \subseteq DOMAIN user_config.d
    /\ ~BrokenSearch(user_config.d, {"terms", "locations"})
    /\ user_config.d["platforms"] = JList(<<>>)
    /\ calls = <<>>

\* config.json gives a single search.location and no search.locations
SingleLocation ==
    /\ user_config.file = "ok"
    /\ user_config.top = "dict"
    /\ user_config.search = "dict"
    /\ "location" \in DOMAIN user_config.d
    /\ "locations" \notin DOMAIN user_config.d

\* the location config built from search.location and search.country
SingleLocationConfig ==
    [location |-> user_config.d["location"].text,
     country |-> IF "country" \in DOMAIN user_config.d
                 THEN user_config.d["country"].text
                 ELSE user_config.d["location"].text]

\* C19: when config.json gives a single search.location and no
\* search.locations, the locations of the loaded configuration are the
\* one-element list built from that location and country, and the run
\* searches that location.
C19_SingleLocationSearched ==
    (Loaded /\ SingleLocation) =>
        /\ config.t = "dict"
        /\ "locations" \in DOMAIN config.d
        /\ config.d["locations"] =
              JList(<<LocEntry({"location", "country"}, SingleLocationConfig.location,
                               SingleLocationConfig.country)>>)
        /\ pc \notin {"config_error", "crashed"} => locations = <<SingleLocationConfig>>

====
